---- MODULE Spec2Model ----
(***************************************************************************)
(* Model of src/backend/server.ts (the "Pipes" server, lines 1-236): an    *)
(* in-memory record cache, its JSON file, the POST /pipes upsert, the      *)
(* GET /pipes listing and the proxy-or-handle routing decision.            *)
(*                                                                         *)
(* The server is one event loop.  A request handler runs without           *)
(* interruption between two awaits, so every action below is one such      *)
(* uninterrupted run: the part of the handler up to its first await, the   *)
(* part between the body's end and the start of the file write, the part   *)
(* after the file write.  fs.writeFile is not one step: it opens the file,  *)
(* which truncates it, and writes the string from offset 0 later.          *)
(***************************************************************************)
EXTENDS Integers, Sequences, FiniteSets, TLC

\* ---------------------------------------------------------------- bounds
\* Creates are accepted while the cache holds fewer than MaxRecords records.
MaxRecords == 2

\* Requests that can be in flight at the same time (connections).
Slots == {"r1", "r2"}

\* ------------------------------------------------------- JSON data model
\* Field names of a Pipe other than id (two of the optional fields).
Fields == {"material", "length"}

\* Marker of a key that the object does not have.
Absent == "absent"

\* JSON literals a field can carry on the wire or in the file: a string, a
\* numeral, a numeral beyond the double range, the JSON null, and the empty
\* string and the 0 that the editor puts into fields left empty.
Literals == {"steel", "5", "1e999", "null", "", "0"}

\* JavaScript values a field can have in memory.
Values == {"steel", "5", "Infinity", "null", "", "0"}

\* An id value: k is the JavaScript type, n is its Number() coercion (what
\* Math.max sees).  The modelled strings are non-empty.
IdNum(i) == [k |-> "num", n |-> i]
IdNull == [k |-> "null", n |-> 0]
IdFalse == [k |-> "bool", n |-> 0]
IdTrue == [k |-> "bool", n |-> 1]
IdStr == [k |-> "str", n |-> 1]
NoId == [k |-> "absent", n |-> 0]

\* JavaScript truthiness of body.id (server.ts:180, `if (body.id)`).
Truthy(v) ==
  CASE v.k = "num" -> v.n # 0
    [] v.k = "bool" -> v.n = 1
    [] v.k = "str" -> TRUE
    [] OTHER -> FALSE

\* JSON.parse of one literal: a numeral beyond the double range becomes
\* Infinity, every other modelled literal denotes itself.
JSONParseValue(lit) ==
  IF lit = "1e999" THEN "Infinity" ELSE lit

\* JSON.stringify of one value: a non-finite number is written as null.
JSONStringifyValue(v) ==
  IF v = "Infinity" THEN "null" ELSE v

\* JSON.parse / JSON.stringify of one object (ids are finite numbers, null,
\* false or strings, which are written and read back unchanged).
JSONParseRecord(t) ==
  [id |-> t.id,
   f |-> [x \in Fields |-> IF t.f[x] = Absent THEN Absent ELSE JSONParseValue(t.f[x])]]

JSONStringifyRecord(r) ==
  [id |-> r.id,
   f |-> [x \in Fields |-> IF r.f[x] = Absent THEN Absent ELSE JSONStringifyValue(r.f[x])]]

\* JSON.parse / JSON.stringify of an array of objects.
JSONParse(doc) == [i \in 1..Len(doc) |-> JSONParseRecord(doc[i])]

JSONStringify(list) == [i \in 1..Len(list) |-> JSONStringifyRecord(list[i])]

NoFields == [x \in Fields |-> Absent]

NoRecord == [id |-> NoId, f |-> NoFields]

\* ------------------------------------------------------------- the file
\* database.json: absent, zero bytes long, unparsable, or a JSON array
\* followed by tail bytes that an earlier, longer write left behind.
FileAbsent == [kind |-> "absent", doc |-> <<>>, tail |-> 0]
FileEmpty == [kind |-> "empty", doc |-> <<>>, tail |-> 0]
FileCorrupt == [kind |-> "corrupt", doc |-> <<>>, tail |-> 0]
FileJson(doc) == [kind |-> "json", doc |-> doc, tail |-> 0]

InitialFiles == {FileAbsent, FileEmpty, FileCorrupt, FileJson(<<>>)}

\* The number of characters of a literal in the file.
Width(lit) ==
  CASE lit = "steel" -> 7
    [] lit = "5" -> 1
    [] lit = "null" -> 4
    [] lit = "" -> 2
    [] lit = "0" -> 1
    [] OTHER -> 0

\* The number of characters of the line `    "key": value` of a field.
LineSize(x, lit) ==
  IF lit = Absent THEN 0
  ELSE 2 + 4 + (IF x = "material" THEN 12 ELSE 10) + Width(lit)

\* The number of characters JSON.stringify(data, null, 2) gives one record
\* (ids have one digit or are null).
RecordSize(t) ==
  4 + 4 + 6 + (IF t.id.k = "num" THEN 1 ELSE 4)
    + LineSize("material", t.f["material"]) + LineSize("length", t.f["length"]) + 4

\* The number of characters of JSON.stringify(data, null, 2) (server.ts:99).
RECURSIVE TextSize(_)
TextSize(doc) ==
  IF doc = <<>> THEN 2
  ELSE IF Len(doc) = 1 THEN 2 + RecordSize(doc[1]) + 2
  ELSE RecordSize(doc[1]) + 2 + TextSize(Tail(doc))

\* The length of the file.
FileSize(file) ==
  IF file.kind = "json" THEN TextSize(file.doc) + file.tail ELSE 0

\* The file after a write of the string at offset 0 through a descriptor
\* that was opened, and truncated the file, earlier: what another writer
\* has put beyond the end of the string since then stays.
Overlay(file, doc) ==
  [kind |-> "json", doc |-> doc,
   tail |-> IF FileSize(file) > TextSize(doc) THEN FileSize(file) - TextSize(doc) ELSE 0]

\* A loader that starts with an empty collection when the file cannot be
\* read or parsed.
loadDatabaseLenient(file) ==
  IF file.kind = "json" /\ file.tail = 0
  THEN [ok |-> TRUE, data |-> JSONParse(file.doc)]
  ELSE [ok |-> TRUE, data |-> <<>>]

\* loadDatabase (server.ts:79-91): the array read from the file, [] for an
\* empty or missing file; ok = FALSE stands for process.exit(1).
loadDatabase(file) ==
  CASE file.kind = "json" /\ file.tail = 0 -> [ok |-> TRUE, data |-> JSONParse(file.doc)]
    [] file.kind = "empty" -> [ok |-> TRUE, data |-> <<>>]
    [] file.kind = "absent" -> [ok |-> TRUE, data |-> <<>>]
    [] OTHER -> [ok |-> FALSE, data |-> <<>>]

\* ------------------------------------------------------- request bodies
\* The bytes of a request body: not JSON, zero bytes, the JSON null, or a
\* JSON object.
BodyInvalid == [kind |-> "invalid", id |-> NoId, f |-> NoFields]
BodyEmpty == [kind |-> "empty", id |-> NoId, f |-> NoFields]
BodyNull == [kind |-> "null", id |-> NoId, f |-> NoFields]
BodyObject(id, f) == [kind |-> "object", id |-> id, f |-> f]

\* A parser that reads a body that is not JSON as {}.
parseRequestBodyLenient(text) ==
  CASE text.kind \in {"invalid", "empty"} -> [ok |-> TRUE, val |-> BodyObject(NoId, NoFields)]
    [] text.kind = "null" -> [ok |-> TRUE, val |-> BodyNull]
    [] OTHER -> [ok |-> TRUE, val |-> BodyObject(text.id, JSONParseRecord(text).f)]

\* parseRequestBody (server.ts:110-127): rejects on invalid JSON, resolves
\* to {} for an empty body and to JSON.parse(body) otherwise.
parseRequestBody(text) ==
  CASE text.kind = "invalid" -> [ok |-> FALSE, val |-> BodyNull]
    [] text.kind = "empty" -> [ok |-> TRUE, val |-> BodyObject(NoId, NoFields)]
    [] text.kind = "null" -> [ok |-> TRUE, val |-> BodyNull]
    [] OTHER -> [ok |-> TRUE, val |-> BodyObject(text.id, JSONParseRecord(text).f)]

\* ------------------------------------------------------ the record store
\* Array.prototype.findIndex with (p) => p.id === body.id (server.ts:181):
\* the first position holding the id, 0 when there is none (the code's -1).
findIndex(cache, id) ==
  IF \E i \in 1..Len(cache) : cache[i].id = id
  THEN CHOOSE i \in 1..Len(cache) :
         /\ cache[i].id = id
         /\ \A j \in 1..(i - 1) : cache[j].id # id
  ELSE 0

\* Object spread { ...base, ...over }: every key of over, id included, takes
\* over's value; the keys over lacks keep base's value.
Spread(base, over) ==
  [id |-> IF over.id = NoId THEN base.id ELSE over.id,
   f |-> [x \in Fields |-> IF over.f[x] = Absent THEN base.f[x] ELSE over.f[x]]]

\* Math.max(...pipeCache.map((p) => p.id)): ids are coerced with Number().
RECURSIVE MathMax(_)
MathMax(cache) ==
  IF Len(cache) = 1 THEN cache[1].id.n
  ELSE LET m == MathMax(Tail(cache)) IN
       IF cache[1].id.n > m THEN cache[1].id.n ELSE m

\* An id that repeats the largest one.
newIdNoIncrement(cache) ==
  IF Len(cache) > 0 THEN MathMax(cache) ELSE 1

\* newId (server.ts:196).
newId(cache) ==
  IF Len(cache) > 0 THEN MathMax(cache) + 1 ELSE 1

\* newPipe (server.ts:200-203): { id: newId, ...body }.
newPipe(cache, body) ==
  Spread([id |-> IdNum(newId(cache)), f |-> NoFields], body)

\* A store that replaces the record by the body instead of merging.
updatedPipeReplaced(cache, pipeIndex, body) ==
  [id |-> body.id, f |-> body.f]

\* updatedPipe (server.ts:184): { ...pipeCache[pipeIndex], ...body }.
updatedPipe(cache, pipeIndex, body) ==
  Spread(cache[pipeIndex], body)

\* An upsert that stores the body of an unknown id as a new record.
UpsertInsertsMissing(cache, body) ==
  IF Truthy(body.id)
  THEN LET pipeIndex == findIndex(cache, body.id) IN
       IF pipeIndex > 0
       THEN [op |-> "update",
             cache |-> [cache EXCEPT ![pipeIndex] = updatedPipe(cache, pipeIndex, body)],
             rec |-> updatedPipe(cache, pipeIndex, body)]
       ELSE [op |-> "create",
             cache |-> Append(cache, [id |-> body.id, f |-> body.f]),
             rec |-> [id |-> body.id, f |-> body.f]]
  ELSE [op |-> "create",
        cache |-> Append(cache, newPipe(cache, body)),
        rec |-> newPipe(cache, body)]

\* An upsert that puts a new record in front of the others.
UpsertPrepends(cache, body) ==
  IF Truthy(body.id)
  THEN LET pipeIndex == findIndex(cache, body.id) IN
       IF pipeIndex > 0
       THEN [op |-> "update",
             cache |-> [cache EXCEPT ![pipeIndex] = updatedPipe(cache, pipeIndex, body)],
             rec |-> updatedPipe(cache, pipeIndex, body)]
       ELSE [op |-> "notfound", cache |-> cache, rec |-> NoRecord]
  ELSE [op |-> "create",
        cache |-> <<newPipe(cache, body)>> \o cache,
        rec |-> newPipe(cache, body)]

\* An upsert whose create overwrites the last record of a non-empty cache.
UpsertOverwritesLast(cache, body) ==
  IF Truthy(body.id)
  THEN LET pipeIndex == findIndex(cache, body.id) IN
       IF pipeIndex > 0
       THEN [op |-> "update",
             cache |-> [cache EXCEPT ![pipeIndex] = updatedPipe(cache, pipeIndex, body)],
             rec |-> updatedPipe(cache, pipeIndex, body)]
       ELSE [op |-> "notfound", cache |-> cache, rec |-> NoRecord]
  ELSE [op |-> "create",
        cache |-> IF cache = <<>> THEN <<newPipe(cache, body)>>
                  ELSE [cache EXCEPT ![Len(cache)] = newPipe(cache, body)],
        rec |-> newPipe(cache, body)]

\* The upsert of POST /pipes (server.ts:180-209) up to the call of
\* saveDatabase: the new cache, the record the response will carry and the
\* branch taken.
Upsert(cache, body) ==
  IF Truthy(body.id)
  THEN LET pipeIndex == findIndex(cache, body.id) IN
       IF pipeIndex > 0
       THEN [op |-> "update",
             cache |-> [cache EXCEPT ![pipeIndex] = updatedPipe(cache, pipeIndex, body)],
             rec |-> updatedPipe(cache, pipeIndex, body)]
       ELSE [op |-> "notfound", cache |-> cache, rec |-> NoRecord]
  ELSE [op |-> "create",
        cache |-> Append(cache, newPipe(cache, body)),
        rec |-> newPipe(cache, body)]

\* ------------------------------------------------------------- routing
\* A request target: the path as a sequence of segments, each a sequence of
\* tokens ("/pipesX" is <<<<"pipes", "X">>>>), and the query string.
Url(segs, query) == [segs |-> segs, query |-> query]

UrlPipes == Url(<< <<"pipes">> >>, "")
UrlPipesQuery == Url(<< <<"pipes">> >>, "q=1")
UrlPipesSub == Url(<< <<"pipes">>, <<"3">> >>, "")
UrlPipesX == Url(<< <<"pipes", "X">> >>, "")
UrlIndex == Url(<< <<"index.html">> >>, "")
UrlDotDot == Url(<< <<"a">>, <<"..">>, <<"pipes">> >>, "")
NoUrl == Url(<<>>, "")

\* Host headers: one the URL parser accepts and one it rejects.
HostGood == "localhost:3000"
HostBad == "local host"

\* What Node does with the rejected promise of the request listener: the
\* process exits (the default since Node 15) or only warns and the request
\* stays unanswered.
UnhandledRejection == {"exit", "warn"}

\* The URL parser's removal of dot segments from a path.
RECURSIVE RemoveDotSegments(_, _)
RemoveDotSegments(segs, out) ==
  IF segs = <<>> THEN out
  ELSE IF Head(segs) = <<"..">>
       THEN RemoveDotSegments(Tail(segs),
                              IF out = <<>> THEN out ELSE SubSeq(out, 1, Len(out) - 1))
       ELSE RemoveDotSegments(Tail(segs), Append(out, Head(segs)))

\* A pathname that still carries the query string.
PathnameWithQuery(url, host) ==
  [ok |-> host # HostBad,
   segs |-> IF url.query = "" THEN RemoveDotSegments(url.segs, <<>>)
            ELSE Append(RemoveDotSegments(url.segs, <<>>), <<"?", url.query>>)]

\* new URL(url, `http://${req.headers.host}`).pathname (server.ts:163): the
\* normalised path without the query; ok = FALSE when the constructor throws.
Pathname(url, host) ==
  [ok |-> host # HostBad, segs |-> RemoveDotSegments(url.segs, <<>>)]

\* pathname.startsWith('/pipes') (server.ts:166).
startsWithPipes(segs) ==
  /\ Len(segs) >= 1
  /\ Len(segs[1]) >= 1
  /\ segs[1][1] = "pipes"

\* pathname === '/pipes' (server.ts:169, 176).
isPipes(segs) == segs = << <<"pipes">> >>

\* A routing decision that tests the prefix only.
RouteByPrefix(method, url, host) ==
  LET pathname == Pathname(url, host).segs IN
  IF startsWithPipes(pathname) /\ method = "GET" THEN "list"
  ELSE IF startsWithPipes(pathname) /\ method = "POST" THEN "upsert"
  ELSE "proxy"

\* The routing decision of the request listener (server.ts:166-221).
Route(method, url, host) ==
  LET pathname == Pathname(url, host).segs IN
  IF startsWithPipes(pathname) /\ isPipes(pathname) /\ method = "GET" THEN "list"
  ELSE IF startsWithPipes(pathname) /\ isPipes(pathname) /\ method = "POST" THEN "upsert"
  ELSE "proxy"

\* ------------------------------------------------------------ responses
\* What a caller receives: the status, which code path wrote it, and the
\* body (a record's JSON, an array's JSON, the id a 404 names, or the
\* upstream's headers and body).
Response(status, kind) ==
  [status |-> status, kind |-> kind, rec |-> NoRecord, list |-> <<>>,
   id |-> NoId, headers |-> "none", body |-> "none"]

\* The upstream's responses to a forwarded request.
UpstreamResponses ==
  {[status |-> 200, headers |-> "html-headers", body |-> "page"],
   [status |-> 404, headers |-> "text-headers", body |-> "no such asset"]}

NoUpstream == [method |-> "none", path |-> NoUrl, headers |-> "none"]

\* Nothing was sent by the last step.
NoSent ==
  [slot |-> "none", resp |-> Response(0, "none"), written |-> FALSE, alone |-> FALSE]

\* ------------------------------------------------------------ the state
VARIABLES
  server,     \* "starting", "listening", "exited" (fatal load) or "crashed"
  pipeCache,  \* the in-memory array of pipes
  disk,       \* database.json
  req,        \* per connection: the progress of the request being handled
  sent,       \* the response written by the last step, if any
  ui,         \* the state of the page (PipeEditorController and its editor)
  widgets     \* the state of the "Widgets" variant of the server

vars == <<server, pipeCache, disk, req, sent, ui, widgets>>

\* A connection with no request on it.
IdleReq ==
  [pc |-> "idle",
   op |-> "none",              \* branch of the upsert taken
   rec |-> NoRecord,           \* updatedPipe / newPipe held across the await
   write |-> <<>>,             \* the string handed to fs.writeFile
   up |-> NoUpstream,          \* options of the upstream request
   gone |-> FALSE,             \* the caller has disconnected
   heads |-> 0,                \* calls of res.writeHead for a forwarded request
   overlapped |-> FALSE]       \* another request was in flight meanwhile

\* A request whose handling has started and not finished.
InFlight(r) == r.pc # "idle"

\* res.writeHead + res.end on connection s; nothing reaches a caller that
\* has disconnected.
Send(s, resp, written) ==
  IF req[s].gone THEN NoSent
  ELSE [slot |-> s, resp |-> resp, written |-> written, alone |-> ~req[s].overlapped]

\* ------------------------------------------- the "Widgets" variant
\* A request body of POST /widgets: not JSON, zero bytes, the JSON null, or
\* a JSON object with optional id, name and color.
WidgetBodyInvalid == [kind |-> "invalid", id |-> NoId, name |-> Absent, color |-> Absent]
WidgetBodyEmpty == [kind |-> "empty", id |-> NoId, name |-> Absent, color |-> Absent]
WidgetBodyNull == [kind |-> "null", id |-> NoId, name |-> Absent, color |-> Absent]
WidgetBodyObject(id, name, color) ==
  [kind |-> "object", id |-> id, name |-> name, color |-> color]

NoWidget == [id |-> NoId, name |-> Absent, color |-> Absent]

NoWidgetSent == [status |-> 0, rec |-> NoWidget, written |-> FALSE]

\* The variant's server after startServer (server.ts:459-467) on a missing
\* database.json, with one connection.
WidgetsInit ==
  [widgetCache |-> <<>>,       \* widgetCache
   disk |-> FileAbsent,        \* database.json, doc is the array written
   pc |-> "idle",              \* progress of the request: idle, body, saving
   op |-> "none",              \* branch taken
   rec |-> NoWidget,           \* updatedWidget / newWidget
   write |-> <<>>,             \* the array handed to fs.writeFile
   sent |-> NoWidgetSent]      \* the response written by the last step

\* A validation that requires only the name.
WidgetValidNameOnly(body) ==
  body.name \notin {Absent, ""}

\* The negation of `!body.name || !body.color` (server.ts:413) for string
\* values.
WidgetValid(body) ==
  /\ body.name \notin {Absent, ""}
  /\ body.color \notin {Absent, ""}

\* The upsert of POST /widgets (server.ts:420-441) up to saveDatabase.
WidgetUpsert(cache, body) ==
  IF Truthy(body.id)
  THEN LET widgetIndex == findIndex(cache, body.id) IN
       IF widgetIndex > 0
       THEN LET updatedWidget ==
                  [id |-> body.id, name |-> body.name, color |-> body.color]
            IN [op |-> "update",
                cache |-> [cache EXCEPT ![widgetIndex] = updatedWidget],
                rec |-> updatedWidget]
       ELSE [op |-> "notfound", cache |-> cache, rec |-> NoWidget]
  ELSE LET newWidget ==
             [id |-> IdNum(newId(cache)), name |-> body.name, color |-> body.color]
       IN [op |-> "create", cache |-> Append(cache, newWidget), rec |-> newWidget]

\* A POST /widgets arrives (server.ts:393-411).
WidgetReceive ==
  /\ widgets.pc = "idle"
  /\ widgets' = [widgets EXCEPT !.pc = "body", !.sent = NoWidgetSent]

\* The body of the POST /widgets has arrived (server.ts:339-356, 411-438).
WidgetBodyEnd(text) ==
  /\ widgets.pc = "body"
  /\ IF text.kind \in {"invalid", "null"}
     THEN \* rejected promise, or TypeError on body.name: the catch block
          widgets' = [widgets EXCEPT !.pc = "idle",
                                     !.sent = [NoWidgetSent EXCEPT !.status = 500]]
     ELSE IF ~WidgetValid(text)
     THEN widgets' = [widgets EXCEPT !.pc = "idle",
                                     !.sent = [NoWidgetSent EXCEPT !.status = 400]]
     ELSE LET u == WidgetUpsert(widgets.widgetCache, text) IN
          IF u.op = "notfound"
          THEN widgets' = [widgets EXCEPT !.pc = "idle",
                                          !.sent = [NoWidgetSent EXCEPT !.status = 404]]
          ELSE /\ u.op = "create" => Len(widgets.widgetCache) < MaxRecords
               /\ widgets' = [widgets EXCEPT !.pc = "saving",
                                             !.widgetCache = u.cache,
                                             !.op = u.op,
                                             !.rec = u.rec,
                                             !.write = u.cache,
                                             !.sent = NoWidgetSent]

\* fs.writeFile settles and the handler resumes (server.ts:326-332,
\* 425-427, 438-440).
WidgetWriteFinish(ok) ==
  /\ widgets.pc = "saving"
  /\ widgets' = [widgets EXCEPT
       !.pc = "idle",
       !.disk = IF ok THEN [kind |-> "json", doc |-> widgets.write, tail |-> 0] ELSE @,
       !.op = "none",
       !.rec = NoWidget,
       !.write = <<>>,
       !.sent = [status |-> IF widgets.op = "update" THEN 200 ELSE 201,
                 rec |-> widgets.rec, written |-> ok]]

\* The fetches of the list that the page can have in flight together.
Fetches == {"f1", "f2"}

\* The two editors of the repository: components/PipeEditor.vue and the one
\* that tracks dirty fields (unnamed/part_000).
Editors == {"plain", "gumnut"}

NoFetch == [st |-> "none", list |-> <<>>]

NoSave == [st |-> "none", body |-> BodyEmpty, from |-> "none", status |-> 0]

\* The page before it is mounted (PipeEditorController.vue:26-30).
UiInit ==
  [editor |-> "none",            \* the editor the page was built with
   pipes |-> <<>>,               \* pipes
   selectedPipe |-> NoRecord,    \* selectedPipe (NoRecord is null)
   isEditorOpen |-> FALSE,       \* isEditorOpen
   from |-> "none",              \* the button that opened the dialog
   typed |-> NoFields,           \* what the user has entered in the dialog
   loading |-> FALSE,            \* loading
   toast |-> "none",             \* the last toast shown
   fetch |-> [f \in Fetches |-> NoFetch],  \* GET /pipes in flight
   latest |-> "none",            \* the fetch started last
   latestList |-> <<>>,          \* the response to the fetch started last
   save |-> NoSave]              \* POST /pipes in flight

Init ==
  /\ server = "starting"
  /\ pipeCache = <<>>
  /\ disk \in InitialFiles
  /\ req = [s \in Slots |-> IdleReq]
  /\ sent = NoSent
  /\ ui = UiInit
  /\ widgets = WidgetsInit

\* startServer (server.ts:226-234): load the file, then listen.
startServer ==
  /\ server = "starting"
  /\ LET loaded == loadDatabase(disk) IN
     IF loaded.ok
     THEN /\ pipeCache' = loaded.data
          /\ server' = "listening"
     ELSE /\ server' = "exited"
          /\ UNCHANGED pipeCache
  /\ UNCHANGED <<disk, req, sent>>

\* The request listener up to its first await (server.ts:161-177, 221): a
\* request arrives on connection s and is routed.
Receive(s, r) ==
  /\ server = "listening"
  /\ req[s].pc = "idle"
  /\ LET others == {t \in Slots \ {s} : InFlight(req[t])}
         seen == [t \in Slots |->
                    IF t \in others THEN [req[t] EXCEPT !.overlapped = TRUE] ELSE req[t]]
         q == [IdleReq EXCEPT !.overlapped = (others # {})]
         route == Route(r.method, r.url, r.host)
     IN
     IF ~Pathname(r.url, r.host).ok
     THEN \* new URL() throws outside the try block: the listener's promise
          \* is rejected and nothing handles it.
          \E outcome \in UnhandledRejection :
            /\ server' = IF outcome = "exit" THEN "crashed" ELSE server
            /\ req' = [seen EXCEPT ![s] = [q EXCEPT !.pc = "hung"]]
            /\ sent' = NoSent
            /\ UNCHANGED <<pipeCache, disk>>
     ELSE
       /\ req' = [seen EXCEPT ![s] =
            CASE route = "list" -> IdleReq
              [] route = "upsert" -> [q EXCEPT !.pc = "body"]
              [] OTHER ->
                   \* proxyRequest (server.ts:136-157)
                   [q EXCEPT !.pc = "proxying",
                             !.up = [method |-> r.method, path |-> r.url,
                                     headers |-> r.headers]]]
       /\ sent' = IF route = "list"
                  THEN [Send(s, [Response(200, "list") EXCEPT
                                   !.list = JSONStringify(pipeCache)], FALSE)
                          EXCEPT !.alone = (others = {})]
                  ELSE NoSent
       /\ UNCHANGED <<server, pipeCache, disk>>

\* A handler that starts the write and answers without awaiting it.
BodyEndAnswersEarly(s, text) ==
  /\ server = "listening"
  /\ req[s].pc = "body"
  /\ LET parsed == parseRequestBody(text) IN
     IF ~parsed.ok \/ parsed.val.kind = "null"
     THEN /\ req' = [req EXCEPT ![s] = IdleReq]
          /\ sent' = Send(s, Response(500, "error"), FALSE)
          /\ UNCHANGED <<server, pipeCache, disk>>
     ELSE LET body == parsed.val
              u == Upsert(pipeCache, body)
          IN
          IF u.op = "notfound"
          THEN /\ req' = [req EXCEPT ![s] = IdleReq]
               /\ sent' = Send(s, [Response(404, "notfound") EXCEPT !.id = body.id],
                               FALSE)
               /\ UNCHANGED <<server, pipeCache, disk>>
          ELSE /\ u.op = "create" => Len(pipeCache) < MaxRecords
               /\ pipeCache' = u.cache
               /\ req' = [req EXCEPT ![s].pc = "saving",
                                     ![s].op = u.op, ![s].rec = u.rec,
                                     ![s].write = JSONStringify(u.cache)]
               /\ sent' = Send(s, [Response(IF u.op = "update" THEN 200 ELSE 201, "record")
                                     EXCEPT !.rec = JSONStringifyRecord(u.rec)], FALSE)
               /\ UNCHANGED <<server, disk>>

\* The body of a POST /pipes has arrived (server.ts:116-122, 177-206): it is
\* parsed, the upsert is applied to the cache and the file write is started,
\* or the request is answered 404 or 500.
BodyEnd(s, text) ==
  /\ server = "listening"
  /\ req[s].pc = "body"
  /\ LET parsed == parseRequestBody(text) IN
     IF ~parsed.ok \/ parsed.val.kind = "null"
     THEN \* rejected promise, or TypeError on body.id: the catch block
          /\ req' = [req EXCEPT ![s] = IdleReq]
          /\ sent' = Send(s, Response(500, "error"), FALSE)
          /\ UNCHANGED <<server, pipeCache, disk>>
     ELSE LET body == parsed.val
              u == Upsert(pipeCache, body)
          IN
          IF u.op = "notfound"
          THEN /\ req' = [req EXCEPT ![s] = IdleReq]
               /\ sent' = Send(s, [Response(404, "notfound") EXCEPT !.id = body.id],
                               FALSE)
               /\ UNCHANGED <<server, pipeCache, disk>>
          ELSE /\ u.op = "create" => Len(pipeCache) < MaxRecords
               /\ pipeCache' = u.cache
               \* saveDatabase(pipeCache): JSON.stringify runs now, the
               \* write itself completes later
               /\ req' = [req EXCEPT ![s].pc = "saving",
                                     ![s].op = u.op, ![s].rec = u.rec,
                                     ![s].write = JSONStringify(u.cache)]
               /\ sent' = NoSent
               /\ UNCHANGED <<server, disk>>

\* fs.writeFile has opened database.json (server.ts:99): the file is
\* truncated, the string is not yet written.
WriteOpen(s) ==
  /\ server = "listening"
  /\ req[s].pc = "saving"
  /\ disk' = FileEmpty
  /\ req' = [req EXCEPT ![s].pc = "writing"]
  /\ sent' = NoSent
  /\ UNCHANGED <<server, pipeCache>>

\* A handler that answers 200 after every write.
WriteFinishAlways200(s, ok) ==
  /\ server = "listening"
  /\ req[s].pc = "writing" \/ (req[s].pc = "saving" /\ ~ok)
  /\ disk' = IF ok THEN Overlay(disk, req[s].write) ELSE disk
  /\ req' = [req EXCEPT ![s] = IdleReq]
  /\ sent' = Send(s, [Response(200, "record")
                        EXCEPT !.rec = JSONStringifyRecord(req[s].rec)], ok)
  /\ UNCHANGED <<server, pipeCache>>

\* A handler that reports a failed write to the caller.
WriteFinishReportsFailure(s, ok) ==
  /\ server = "listening"
  /\ req[s].pc = "writing" \/ (req[s].pc = "saving" /\ ~ok)
  /\ disk' = IF ok THEN Overlay(disk, req[s].write) ELSE disk
  /\ req' = [req EXCEPT ![s] = IdleReq]
  /\ sent' = IF ok
             THEN Send(s, [Response(IF req[s].op = "update" THEN 200 ELSE 201, "record")
                             EXCEPT !.rec = JSONStringifyRecord(req[s].rec)], ok)
             ELSE Send(s, Response(500, "error"), ok)
  /\ UNCHANGED <<server, pipeCache>>

\* A handler that puts the snapshot it wrote back into the cache.
WriteFinishRestoresSnapshot(s, ok) ==
  /\ server = "listening"
  /\ req[s].pc = "writing" \/ (req[s].pc = "saving" /\ ~ok)
  /\ disk' = IF ok THEN Overlay(disk, req[s].write) ELSE disk
  /\ pipeCache' = JSONParse(req[s].write)
  /\ req' = [req EXCEPT ![s] = IdleReq]
  /\ sent' = Send(s, [Response(IF req[s].op = "update" THEN 200 ELSE 201, "record")
                        EXCEPT !.rec = JSONStringifyRecord(req[s].rec)], ok)
  /\ UNCHANGED server

\* fs.writeFile settles and the handler resumes (server.ts:97-103,
\* 187-188, 207-208): on success the string is in the file from offset 0;
\* a failure, of the open or of the write, is only logged; the response is
\* sent either way.
WriteFinish(s, ok) ==
  /\ server = "listening"
  /\ req[s].pc = "writing" \/ (req[s].pc = "saving" /\ ~ok)
  /\ disk' = IF ok THEN Overlay(disk, req[s].write) ELSE disk
  /\ req' = [req EXCEPT ![s] = IdleReq]
  /\ sent' = Send(s, [Response(IF req[s].op = "update" THEN 200 ELSE 201, "record")
                        EXCEPT !.rec = JSONStringifyRecord(req[s].rec)], ok)
  /\ UNCHANGED <<server, pipeCache>>

\* The request of a POST /pipes fails while its body is read
\* (server.ts:123-125): the promise is rejected and the catch block writes
\* a 500 to the broken connection.
BodyError(s) ==
  /\ server = "listening"
  /\ req[s].pc = "body"
  /\ req' = [req EXCEPT ![s] = IdleReq]
  /\ sent' = NoSent
  /\ UNCHANGED <<server, pipeCache, disk>>

\* The caller of a forwarded request disconnects.  proxyRequest
\* (server.ts:136-157) listens to nothing that tells it so.
ClientDisconnect(s) ==
  /\ server = "listening"
  /\ req[s].pc \in {"proxying", "streaming"}
  /\ ~req[s].gone
  /\ req' = [req EXCEPT ![s].gone = TRUE]
  /\ sent' = NoSent
  /\ UNCHANGED <<server, pipeCache, disk>>

\* The upstream answers a forwarded request (server.ts:145-148): the head
\* is written and the body is piped to the caller.
UpstreamRespond(s, proxyRes) ==
  /\ server = "listening"
  /\ req[s].pc = "proxying"
  /\ req' = [req EXCEPT ![s].pc = "streaming", ![s].heads = 1]
  /\ sent' = Send(s, [Response(IF proxyRes.status # 0 THEN proxyRes.status ELSE 500,
                               "upstream") EXCEPT
                        !.headers = proxyRes.headers, !.body = proxyRes.body], FALSE)
  /\ UNCHANGED <<server, pipeCache, disk>>

\* The upstream's body has ended (server.ts:147, pipe with end: true).
UpstreamEnd(s) ==
  /\ server = "listening"
  /\ req[s].pc = "streaming"
  /\ req' = [req EXCEPT ![s] = IdleReq]
  /\ sent' = NoSent
  /\ UNCHANGED <<server, pipeCache, disk>>

\* The upstream request emits 'error' (server.ts:150-154).  Before the
\* upstream's head it answers 502.  After it, res.writeHead throws
\* ERR_HTTP_HEADERS_SENT inside the listener and the uncaught exception
\* ends the process.
UpstreamError(s) ==
  /\ server = "listening"
  /\ req[s].pc \in {"proxying", "streaming"}
  /\ IF req[s].pc = "proxying"
     THEN /\ req' = [req EXCEPT ![s] = IdleReq]
          /\ sent' = Send(s, Response(502, "badgateway"), FALSE)
          /\ UNCHANGED server
     ELSE /\ server' = "crashed"
          /\ sent' = NoSent
          /\ req' = [req EXCEPT ![s].heads = 2]
  /\ UNCHANGED <<pipeCache, disk>>

\* A request line with its Host header and its other headers.
Request(method, url, host) ==
  [method |-> method, url |-> url, host |-> host, headers |-> "request-headers"]

\* ------------------------------------------------- the user interface
\* fetchPipes up to its await (PipeEditorController.vue:33-37).
fetchPipes(u, f) ==
  [u EXCEPT !.loading = TRUE,
            !.fetch[f] = [st |-> "sent", list |-> <<>>],
            !.latest = f]

\* closeDialog (PipeEditorController.vue:89-92); the editor's watcher resets
\* the form when the prop changes.
closeDialog(u) ==
  [u EXCEPT !.isEditorOpen = FALSE,
            !.selectedPipe = NoRecord,
            !.from = "none",
            !.typed = NoFields]

\* What the user enters in a field: a material, a length.
TypedValue(x) == IF x = "material" THEN "steel" ELSE "5"

\* The object that onSave of components/PipeEditor.vue emits (81-90): the
\* selected pipe with the entered fields, under the selected pipe's id.
PlainPipeData(u) ==
  [id |-> u.selectedPipe.id,
   f |-> [x \in Fields |->
            IF u.typed[x] # Absent THEN u.typed[x] ELSE u.selectedPipe.f[x]]]

\* The object that onSave of the dirty-tracking editor emits
\* (unnamed/part_000:111-124): every field is present, a text field left
\* empty is '', a number field is +value || 0.
GumnutPipeData(u) ==
  LET all == PlainPipeData(u).f IN
  [id |-> u.selectedPipe.id,
   f |-> [x \in Fields |->
            IF x = "material"
            THEN (IF all[x] = Absent THEN "" ELSE all[x])
            ELSE (IF all[x] \in {Absent, "", "null", "0"} THEN "0" ELSE all[x])]]

\* JSON.stringify(pipeData) (PipeEditorController.vue:53).
SaveBody(u) ==
  LET pipeData == IF u.editor = "gumnut" THEN GumnutPipeData(u) ELSE PlainPipeData(u)
  IN BodyObject(pipeData.id, JSONStringifyRecord(pipeData).f)

\* onMounted(fetchPipes) (PipeEditorController.vue:94-95), in a page built
\* with editor e.
UiMount(e, f) ==
  /\ server = "listening"
  /\ ui.editor = "none"
  /\ ui' = fetchPipes([ui EXCEPT !.editor = e], f)
  /\ sent' = NoSent
  /\ UNCHANGED <<server, pipeCache, disk, req>>

\* The server answers a fetch of the page (server.ts:169-173).
ServeFetch(s, f) ==
  /\ ui.fetch[f].st = "sent"
  /\ Receive(s, Request("GET", UrlPipes, HostGood))
  /\ ui' = [ui EXCEPT !.fetch[f] = [st |-> "answered", list |-> sent'.resp.list],
                      !.latestList = IF f = ui.latest THEN sent'.resp.list ELSE @]

\* fetchPipes after its awaits (PipeEditorController.vue:38-45), for a
\* response that is ok.
UiFetchDone(f) ==
  /\ ui.fetch[f].st = "answered"
  /\ ui' = [ui EXCEPT !.pipes = JSONParse(ui.fetch[f].list),
                      !.loading = FALSE,
                      !.fetch[f] = NoFetch]
  /\ sent' = NoSent
  /\ UNCHANGED <<server, pipeCache, disk, req>>

\* openCreateDialog (PipeEditorController.vue:84-87): the dialog opens on
\* { id: 0 }.
UiOpenCreate ==
  /\ ui.editor # "none"
  /\ ~ui.isEditorOpen
  /\ ui' = [ui EXCEPT !.selectedPipe = [id |-> IdNum(0), f |-> NoFields],
                      !.isEditorOpen = TRUE,
                      !.from = "create",
                      !.typed = NoFields]
  /\ sent' = NoSent
  /\ UNCHANGED <<server, pipeCache, disk, req>>

\* openEditDialog(pipe) (PipeEditorController.vue:79-82) on row i of the
\* table, which is shown while loading is off.
UiOpenEdit(i) ==
  /\ ui.editor # "none"
  /\ ~ui.isEditorOpen
  /\ ~ui.loading
  /\ i \in 1..Len(ui.pipes)
  /\ ui' = [ui EXCEPT !.selectedPipe = ui.pipes[i],
                      !.isEditorOpen = TRUE,
                      !.from = "edit",
                      !.typed = NoFields]
  /\ sent' = NoSent
  /\ UNCHANGED <<server, pipeCache, disk, req>>

\* The user enters a value into field x of the open dialog.
UiType(x) ==
  /\ ui.isEditorOpen
  /\ ui.typed[x] = Absent
  /\ ui' = [ui EXCEPT !.typed[x] = TypedValue(x)]
  /\ sent' = NoSent
  /\ UNCHANGED <<server, pipeCache, disk, req>>

\* Cancel / Close (onCancel, then closeDialog).
UiCancel ==
  /\ ui.isEditorOpen
  /\ ui' = closeDialog(ui)
  /\ sent' = NoSent
  /\ UNCHANGED <<server, pipeCache, disk, req>>

\* An editor that emits save whether or not a field is dirty.
UiSaveClickAlwaysSaves ==
  /\ ui.isEditorOpen
  /\ ui.save.st = "none"
  /\ ui' = [ui EXCEPT !.save = [st |-> "sent", body |-> SaveBody(ui),
                                 from |-> ui.from, status |-> 0]]
  /\ sent' = NoSent
  /\ UNCHANGED <<server, pipeCache, disk, req>>

\* Save Pipe: onSave of the editor (components/PipeEditor.vue:81-90,
\* unnamed/part_000:104-126), then handleSave up to its await or
\* handleNoChanges (PipeEditorController.vue:48-54, 67-72).
UiSaveClick ==
  /\ ui.isEditorOpen
  /\ ui.save.st = "none"
  /\ ui' = IF ui.editor = "gumnut" /\ ui.typed = NoFields
           THEN [closeDialog(ui) EXCEPT !.toast = "no-changes"]
           ELSE [ui EXCEPT !.save = [st |-> "sent", body |-> SaveBody(ui),
                                      from |-> ui.from, status |-> 0]]
  /\ sent' = NoSent
  /\ UNCHANGED <<server, pipeCache, disk, req>>

\* The page's POST /pipes arrives at the server (server.ts:161-177).
ServeSaveReceive(s) ==
  /\ ui.save.st = "sent"
  /\ Receive(s, Request("POST", UrlPipes, HostGood))
  /\ ui' = [ui EXCEPT !.save.st = "received"]

\* The body of the page's POST has arrived; a 404 or 500 is the answer.
ServeSaveBody(s) ==
  /\ ui.save.st = "received"
  /\ BodyEnd(s, ui.save.body)
  /\ ui' = IF sent'.slot = s
           THEN [ui EXCEPT !.save.st = "answered", !.save.status = sent'.resp.status]
           ELSE ui

\* The write of the page's POST settles and the answer is sent.
ServeSaveWritten(s, ok) ==
  /\ ui.save.st = "received"
  /\ WriteFinish(s, ok)
  /\ ui' = [ui EXCEPT !.save.st = "answered", !.save.status = sent'.resp.status]

\* handleSave after its await (PipeEditorController.vue:55-64): on an ok
\* response the dialog closes and the list is fetched again.
UiSaveDone(f) ==
  /\ ui.save.st = "answered"
  /\ IF ui.save.status \in {200, 201}
     THEN /\ ui.fetch[f].st = "none"
          /\ ui' = fetchPipes([closeDialog(ui) EXCEPT !.toast = "success",
                                                      !.save = NoSave], f)
     ELSE /\ f = "f1"
          /\ ui' = [ui EXCEPT !.toast = "error", !.save = NoSave]
  /\ sent' = NoSent
  /\ UNCHANGED <<server, pipeCache, disk, req>>

\* ------------------------------------------------------- specifications
\* Requests of the whole-server specification.
Requests ==
  {Request("GET", UrlPipes, HostGood),
   Request("GET", UrlPipesQuery, HostGood),
   Request("POST", UrlPipes, HostGood),
   Request("POST", UrlDotDot, HostGood),
   Request("DELETE", UrlPipes, HostGood),
   Request("GET", UrlPipesSub, HostGood),
   Request("POST", UrlPipesX, HostGood),
   Request("GET", UrlIndex, HostGood),
   Request("GET", UrlPipes, HostBad)}

\* Requests of the store specification.
ApiRequests ==
  {Request("GET", UrlPipes, HostGood), Request("POST", UrlPipes, HostGood)}

\* The fields of a body: material absent or a string, length absent or a
\* numeral.
FieldTexts ==
  {f \in [Fields -> {Absent} \cup Literals] :
     /\ f["material"] \in {Absent, "steel"}
     /\ f["length"] \in {Absent, "5", "1e999"}}

\* Ids a body of the store specification can carry: none, the falsy 0 and
\* null, the truthy true and a string, and numbers up to one beyond the
\* largest id the cache can hold.
BodyIds ==
  {NoId, IdNum(0), IdNull, IdTrue, IdStr} \cup {IdNum(i) : i \in 1..(MaxRecords + 1)}

\* Bodies of the whole-server specification.
FewBodies ==
  {BodyInvalid, BodyEmpty, BodyObject(IdNull, NoFields),
   BodyObject(IdNum(1), [NoFields EXCEPT !["material"] = "steel"])}

\* Bodies of the store specification.
Bodies ==
  {BodyInvalid, BodyEmpty, BodyNull} \cup
  {BodyObject(id, f) : id \in BodyIds, f \in FieldTexts}

\* The whole server with every kind of request and a few bodies.
Next ==
  \/ startServer /\ UNCHANGED <<ui, widgets>>
  \/ \E s \in Slots, r \in Requests : Receive(s, r) /\ UNCHANGED <<ui, widgets>>
  \/ \E s \in Slots, t \in FewBodies : BodyEnd(s, t) /\ UNCHANGED <<ui, widgets>>
  \/ \E s \in Slots : BodyError(s) /\ UNCHANGED <<ui, widgets>>
  \/ \E s \in Slots : WriteOpen(s) /\ UNCHANGED <<ui, widgets>>
  \/ \E s \in Slots, ok \in BOOLEAN : WriteFinish(s, ok) /\ UNCHANGED <<ui, widgets>>
  \/ \E s \in Slots : ClientDisconnect(s) /\ UNCHANGED <<ui, widgets>>
  \/ \E s \in Slots, p \in UpstreamResponses : UpstreamRespond(s, p) /\ UNCHANGED <<ui, widgets>>
  \/ \E s \in Slots : UpstreamEnd(s) /\ UNCHANGED <<ui, widgets>>
  \/ \E s \in Slots : UpstreamError(s) /\ UNCHANGED <<ui, widgets>>

Spec == Init /\ [][Next]_vars

\* The record store under API traffic on one connection, with every
\* modelled body and a file system that accepts every write.
StoreSlots == {"r1"}

NextStore ==
  \/ startServer /\ UNCHANGED <<ui, widgets>>
  \/ \E s \in StoreSlots, r \in ApiRequests : Receive(s, r) /\ UNCHANGED <<ui, widgets>>
  \/ \E s \in StoreSlots, t \in Bodies : BodyEnd(s, t) /\ UNCHANGED <<ui, widgets>>
  \/ \E s \in StoreSlots : WriteOpen(s) /\ UNCHANGED <<ui, widgets>>
  \/ \E s \in StoreSlots : WriteFinish(s, TRUE) /\ UNCHANGED <<ui, widgets>>

SpecStore == Init /\ [][NextStore]_vars

\* Bodies of the writes specification: a create, two updates of record 1
\* whose snapshots differ in length, and an update of another field of it.
WriteBodies ==
  {BodyEmpty,
   BodyObject(IdNum(1), [NoFields EXCEPT !["length"] = "1e999"]),
   BodyObject(IdNum(1), [NoFields EXCEPT !["length"] = "5"]),
   BodyObject(IdNum(1), [NoFields EXCEPT !["material"] = "steel"])}

\* Overlapping POST /pipes on two connections with a file system that
\* accepts every write and completes the steps of the writes in any order.
NextWrites ==
  \/ startServer /\ UNCHANGED <<ui, widgets>>
  \/ \E s \in Slots : Receive(s, Request("POST", UrlPipes, HostGood)) /\ UNCHANGED <<ui, widgets>>
  \/ \E s \in Slots, t \in WriteBodies : BodyEnd(s, t) /\ UNCHANGED <<ui, widgets>>
  \/ \E s \in Slots : WriteOpen(s) /\ UNCHANGED <<ui, widgets>>
  \/ \E s \in Slots : WriteFinish(s, TRUE) /\ UNCHANGED <<ui, widgets>>

SpecWrites == Init /\ [][NextWrites]_vars

\* The page and the server: the page's requests are the only requests, its
\* POST comes on one connection and its GETs on the other, and the file
\* system accepts every write.
PostSlot == "r1"

\* The fields the user enters values into.
UiFields == {"material"}

GetSlot == "r2"

NextUi ==
  \/ startServer /\ UNCHANGED <<ui, widgets>>
  \/ \E e \in Editors, f \in Fetches : UiMount(e, f) /\ UNCHANGED widgets
  \/ \E f \in Fetches : ServeFetch(GetSlot, f) /\ UNCHANGED widgets
  \/ \E f \in Fetches : UiFetchDone(f) /\ UNCHANGED widgets
  \/ UiOpenCreate /\ UNCHANGED widgets
  \/ \E i \in 1..MaxRecords : UiOpenEdit(i) /\ UNCHANGED widgets
  \/ \E x \in UiFields : UiType(x) /\ UNCHANGED widgets
  \/ UiCancel /\ UNCHANGED widgets
  \/ UiSaveClick /\ UNCHANGED widgets
  \/ ServeSaveReceive(PostSlot) /\ UNCHANGED widgets
  \/ ServeSaveBody(PostSlot) /\ UNCHANGED widgets
  \/ WriteOpen(PostSlot) /\ UNCHANGED <<ui, widgets>>
  \/ ServeSaveWritten(PostSlot, TRUE) /\ UNCHANGED widgets
  \/ \E f \in Fetches : UiSaveDone(f) /\ UNCHANGED widgets

SpecUi == Init /\ [][NextUi]_vars

\* Bodies of POST /widgets: ids none, 0, stored and unknown; name and
\* color missing, empty or given.
WidgetBodies ==
  {WidgetBodyInvalid, WidgetBodyEmpty, WidgetBodyNull} \cup
  {WidgetBodyObject(id, name, color) :
     id \in {NoId, IdNum(0)} \cup {IdNum(i) : i \in 1..(MaxRecords + 1)},
     name \in {Absent, "", "bolt"},
     color \in {Absent, "", "red", "blue"}}

\* The "Widgets" variant under POST /widgets on one connection.
NextWidgets ==
  \/ WidgetReceive /\ UNCHANGED <<server, pipeCache, disk, req, sent, ui>>
  \/ \E t \in WidgetBodies :
       WidgetBodyEnd(t) /\ UNCHANGED <<server, pipeCache, disk, req, sent, ui>>
  \/ \E ok \in BOOLEAN :
       WidgetWriteFinish(ok) /\ UNCHANGED <<server, pipeCache, disk, req, sent, ui>>

SpecWidgets == Init /\ [][NextWidgets]_vars

TypeOK ==
  /\ server \in {"starting", "listening", "exited", "crashed"}
  /\ \A s \in Slots :
       req[s].pc \in {"idle", "body", "saving", "writing", "proxying", "streaming", "hung"}
  /\ Len(pipeCache) <= MaxRecords

\* ---------------------------------------------------------- properties
\* The steps in which connection s reads a body made of a JSON object (or
\* of no bytes, which the handler reads as {}).
ReadsObject(s, text) ==
  /\ text.kind \in {"object", "empty"}
  /\ BodyEnd(s, text)

\* The connections whose request awaits its body, its file write, or
\* nothing.
Reading == {s \in Slots : req[s].pc = "body"}

Saving == {s \in Slots : req[s].pc \in {"saving", "writing"}}

Proxying == {s \in Slots : req[s].pc \in {"proxying", "streaming"}}

Free == {s \in Slots : req[s].pc = "idle"}

\* The positions of the cache that hold the id.
Positions(cache, id) == {i \in 1..Len(cache) : cache[i].id = id}

\* The largest Number(id) in a non-empty cache.
LargestId(cache) ==
  CHOOSE m \in {cache[i].id.n : i \in 1..Len(cache)} :
    \A i \in 1..Len(cache) : cache[i].id.n <= m

\* C1: every record of the cache has a positive integer id and no two
\* records share an id.
C1_IdsPositiveAndUnique ==
  /\ \A i \in 1..Len(pipeCache) :
       pipeCache[i].id.k = "num" /\ pipeCache[i].id.n > 0
  /\ \A i, j \in 1..Len(pipeCache) :
       i # j => pipeCache[i].id # pipeCache[j].id

\* C2: an upsert whose body has no id or a falsy id appends, and holds for
\* its response, the record with id = largest existing id + 1 (1 in an empty
\* cache) and with the body's other fields as parsed.
C2_CreateOverwritesFalsyId ==
  [][\A s \in Reading, t \in Bodies :
       (~Truthy(t.id) /\ ReadsObject(s, t)) =>
         LET assigned == IF Len(pipeCache) = 0 THEN 1 ELSE LargestId(pipeCache) + 1
             created == [id |-> IdNum(assigned), f |-> JSONParseRecord(t).f]
         IN /\ pipeCache' = Append(pipeCache, created)
            /\ req'[s].rec = created]_vars

\* C3: a create whose body has no id or the id 0 stores a record whose id is
\* larger than the id of every record created before it.
C3_CreatedIdsIncrease ==
  [][\A s \in Reading, t \in Bodies :
       (t.id \in {NoId, IdNum(0)} /\ ReadsObject(s, t)) =>
         /\ Len(pipeCache') = Len(pipeCache) + 1
         /\ \A i \in 1..Len(pipeCache) :
              pipeCache[i].id.n < pipeCache'[Len(pipeCache')].id.n]_vars

\* C4: an upsert whose truthy id is stored overlays the body's fields on the
\* stored record in place: absent fields keep their values, the id, the
\* position, the other records and the length stay, and the record held
\* for the response, and then sent, is the merged record.
C4_UpdateOverlaysInPlace ==
  [][/\ \A s \in Reading, t \in Bodies :
          (Truthy(t.id) /\ Positions(pipeCache, t.id) # {} /\ ReadsObject(s, t)) =>
            \E i \in Positions(pipeCache, t.id) :
              /\ Len(pipeCache') = Len(pipeCache)
              /\ pipeCache'[i].id = pipeCache[i].id
              /\ \A x \in Fields :
                   pipeCache'[i].f[x] =
                     IF t.f[x] = Absent THEN pipeCache[i].f[x]
                     ELSE JSONParseValue(t.f[x])
              /\ \A j \in 1..Len(pipeCache) : j # i => pipeCache'[j] = pipeCache[j]
              /\ req'[s].op = "update"
              /\ req'[s].rec = pipeCache'[i]
     /\ \A s \in Saving, ok \in BOOLEAN :
          (WriteFinish(s, ok) /\ req[s].op = "update") =>
            /\ sent'.slot = s
            /\ sent'.resp.rec = JSONStringifyRecord(req[s].rec)]_vars

\* C4 witness: an update is held for its response whose record kept the
\* material the file still shows for it and took a new length from the body.
C4_Witness ==
  \E s \in Slots, i \in 1..Len(pipeCache) :
    /\ req[s].pc = "saving"
    /\ req[s].op = "update"
    /\ pipeCache[i] = req[s].rec
    /\ req[s].rec.f["material"] = "steel"
    /\ req[s].rec.f["length"] = "Infinity"
    /\ disk.kind = "json"
    /\ Len(disk.doc) >= i
    /\ disk.doc[i].id = req[s].rec.id
    /\ disk.doc[i].f["material"] = "steel"
    /\ disk.doc[i].f["length"] = "5"

\* C5: an upsert whose truthy id is not stored leaves the cache and the file
\* as they are, starts no write, and answers 404 naming the id.
C5_MissingIdAnswers404 ==
  [][\A s \in Reading, t \in Bodies :
       (Truthy(t.id) /\ Positions(pipeCache, t.id) = {} /\ ReadsObject(s, t)) =>
         /\ pipeCache' = pipeCache
         /\ disk' = disk
         /\ req'[s].pc = "idle"
         /\ \A r \in Slots : req'[r].pc \in {"saving", "writing"} => req'[r] = req[r]
         /\ sent'.slot = s
         /\ sent'.resp.status = 404
         /\ sent'.resp.kind = "notfound"
         /\ sent'.resp.id = t.id]_vars

\* C5 witness: a 404 naming a numeric id was sent while the cache holds
\* records.
C5_Witness ==
  /\ sent.resp.status = 404
  /\ sent.resp.id.k = "num"
  /\ Len(pipeCache) > 0

\* C6: GET /pipes answers the records of the cache in their order; a step
\* either appends one record at the end or keeps the length and the id at
\* every position.
C6_ListInStableOrder ==
  [][/\ \A s \in Free :
          Receive(s, Request("GET", UrlPipes, HostGood)) =>
            /\ sent'.slot = s
            /\ sent'.resp.status = 200
            /\ sent'.resp.list = JSONStringify(pipeCache)
            /\ pipeCache' = pipeCache
     /\ \/ /\ Len(pipeCache') = Len(pipeCache)
           /\ \A i \in 1..Len(pipeCache) : pipeCache'[i].id = pipeCache[i].id
        \/ /\ Len(pipeCache') = Len(pipeCache) + 1
           /\ SubSeq(pipeCache', 1, Len(pipeCache)) = pipeCache]_vars

\* C6 witness: a listing of two records was sent, the first of them changed
\* by an update since its creation order was fixed.
C6_Witness ==
  /\ sent.resp.kind = "list"
  /\ Len(sent.resp.list) = 2
  /\ sent.resp.list[1].id = IdNum(1)
  /\ sent.resp.list[2].id = IdNum(2)
  /\ sent.resp.list[1].f["material"] = "steel"

\* C7: after an upsert handled with no other request in flight and whose
\* write succeeded, loading the file gives the cache.
C7_ReloadGivesCache ==
  (sent.resp.kind = "record" /\ sent.written /\ sent.alone) =>
    /\ loadDatabase(disk).ok
    /\ loadDatabase(disk).data = pipeCache

\* The branch an upsert takes is the change it makes to the cache, and the
\* status sent after the write is the status of that branch.
StatusMatchesBranch ==
  /\ \A s \in Reading, t \in FewBodies :
       (BodyEnd(s, t) /\ req'[s].pc = "saving") =>
         /\ req'[s].op \in {"create", "update"}
         /\ req'[s].op = "create" <=>
              /\ Len(pipeCache') = Len(pipeCache) + 1
              /\ SubSeq(pipeCache', 1, Len(pipeCache)) = pipeCache
              /\ pipeCache'[Len(pipeCache')] = req'[s].rec
         /\ req'[s].op = "update" <=>
              /\ Len(pipeCache') = Len(pipeCache)
              /\ \E i \in 1..Len(pipeCache) :
                   /\ pipeCache[i].id = req'[s].rec.id
                   /\ pipeCache'[i] = req'[s].rec
                   /\ \A j \in 1..Len(pipeCache) : j # i => pipeCache'[j] = pipeCache[j]
  /\ \A s \in Saving, ok \in BOOLEAN :
       WriteFinish(s, ok) =>
         /\ sent'.slot = s
         /\ sent'.resp.status \in {200, 201}
         /\ sent'.resp.status = 201 <=> req[s].op = "create"
         /\ sent'.resp.status = 200 <=> req[s].op = "update"

\* C8 as stated: 201 exactly for an append, 200 exactly for a merge in place,
\* and the body is the record as the cache holds it when the response is
\* sent.
C8_BodyIsRecordNowStored ==
  [][/\ StatusMatchesBranch
     /\ \A s \in Saving, ok \in BOOLEAN :
          WriteFinish(s, ok) =>
            \E i \in Positions(pipeCache', req[s].rec.id) :
              sent'.resp.rec = JSONStringifyRecord(pipeCache'[i])]_vars

\* C8 as amended: 201 exactly for an append, 200 exactly for a merge in
\* place, and the body is the record as this request's upsert stored it; it
\* is the record the cache holds when the response is sent if no other
\* request was in flight while this one was handled.
C8_BodyIsRecordAsUpserted ==
  [][/\ StatusMatchesBranch
     /\ \A s \in Saving, ok \in BOOLEAN :
          WriteFinish(s, ok) =>
            /\ sent'.resp.kind = "record"
            /\ sent'.resp.rec = JSONStringifyRecord(req[s].rec)
            /\ sent'.alone =>
                 \E i \in Positions(pipeCache', req[s].rec.id) :
                   sent'.resp.rec = JSONStringifyRecord(pipeCache'[i])]_vars

\* C8 witness: a create is answered 201 with the record it stored after an
\* overlapping update has changed that record in the cache.
C8_Witness ==
  /\ sent.resp.status = 201
  /\ sent.resp.kind = "record"
  /\ ~sent.alone
  /\ sent.resp.rec.f["material"] = Absent
  /\ \E i \in 1..Len(pipeCache) :
       /\ pipeCache[i].id = sent.resp.rec.id
       /\ pipeCache[i].f["material"] = "steel"

\* The kinds of response the API routes write.
ApiKinds == {"list", "record", "notfound", "error"}

C11_InvalidJsonHasNoEffect ==
  [][\A s \in Reading :
       BodyEnd(s, BodyInvalid) =>
         /\ sent'.slot = s
         /\ sent'.resp.status = 500
         /\ sent'.resp.kind = "error"
         /\ pipeCache' = pipeCache
         /\ disk' = disk
         /\ req'[s] = IdleReq
         /\ \A r \in Slots \ {s} : req'[r] = req[r]]_vars

\* C11 witness: a 500 was sent for a body that is not JSON while the cache
\* and the file hold a record.
C11_Witness ==
  /\ sent.resp.status = 500
  /\ sent.resp.kind = "error"
  /\ Len(pipeCache) > 0
  /\ disk.kind = "json"
  /\ Len(disk.doc) > 0

\* C12: once the server listens, no step of handling a request ends the
\* process.
C12_NoRequestEndsProcess ==
  [][server = "listening" => server' = "listening"]_vars

\* C13: a write that fails leaves the cache as the upsert made it, the
\* request is answered 201 for a create and 200 for an update, the process
\* keeps listening, and a later GET /pipes lists the cache.
C13_FailedWriteKeepsChange ==
  [][/\ \A s \in Saving :
          WriteFinish(s, FALSE) =>
            /\ pipeCache' = pipeCache
            /\ Positions(pipeCache', req[s].rec.id) # {}
            /\ server' = "listening"
            /\ sent'.slot = s
            /\ sent'.resp.kind = "record"
            /\ sent'.resp.status = IF req[s].op = "create" THEN 201 ELSE 200
            /\ ~sent'.written
     /\ \A s \in Free :
          Receive(s, Request("GET", UrlPipes, HostGood)) =>
            /\ sent'.resp.status = 200
            /\ sent'.resp.list = JSONStringify(pipeCache)]_vars

\* C13 witness: with every request answered and the file still absent
\* because the write of a create failed, a GET /pipes lists the record.
C13_Witness ==
  /\ sent.resp.kind = "list"
  /\ Len(sent.resp.list) > 0
  /\ disk.kind = "absent"
  /\ \A s \in Slots : req[s].pc = "idle"

\* C14: every error of the upstream request of a caller that is still
\* connected is answered with 502 and the JSON error body, and ends the
\* request.
C14_ForwardingErrorAnswers502 ==
  [][\A s \in Proxying :
       (~req[s].gone /\ UpstreamError(s)) =>
         /\ sent'.slot = s
         /\ sent'.resp.status = 502
         /\ sent'.resp.kind = "badgateway"
         /\ req'[s].pc = "idle"]_vars

\* C15: startup with an absent or empty file gives an empty cache and a
\* listening server; with a file that cannot be read or parsed the process
\* exits, and after that nothing happens: no request is received or
\* answered.  No request is received before the server listens.
C15_StartupLoad ==
  [][/\ server = "starting" =>
          /\ disk.kind \in {"absent", "empty"} =>
               (server' = "listening" /\ pipeCache' = <<>>)
          /\ disk.kind = "corrupt" => server' = "exited"
          /\ req' = req
          /\ sent' = NoSent
     /\ server = "exited" => UNCHANGED vars]_vars

\* C15 witness: the process has exited on a file that cannot be parsed,
\* with no request received.
C15_Witness ==
  /\ server = "exited"
  /\ disk.kind = "corrupt"
  /\ \A s \in Slots : req[s] = IdleReq

\* C16: a 200 or 201 for an upsert is sent in a step in which the write
\* that the upsert started settles: the write was pending before the step
\* and is not after it, the file holds the string if the write succeeded
\* and is untouched if it failed; no request whose write is pending has
\* been answered.
C16_WriteSettlesBeforeAnswer ==
  [][\A s \in Slots :
       /\ (sent'.slot = s /\ sent'.resp.kind = "record") =>
            /\ req[s].pc \in {"saving", "writing"}
            /\ req'[s].pc = "idle"
            /\ sent'.written => (disk'.kind = "json" /\ disk'.doc = req[s].write)
            /\ ~sent'.written => disk' = disk
       /\ req'[s].pc \in {"saving", "writing"} => sent'.slot # s]_vars

\* C16 witness: a 200 was sent for an update whose string is in the file.
C16_Witness ==
  /\ sent.resp.kind = "record"
  /\ sent.resp.status = 200
  /\ sent.written
  /\ req[sent.slot].pc = "idle"
  /\ disk.kind = "json"
  /\ \E i \in 1..Len(disk.doc) : disk.doc[i] = sent.resp.rec

\* C17: when a write completes and leaves no write in progress, the file
\* is the whole string of that write and nothing else.
C17_FileIsOneSnapshot ==
  [][\A s \in Saving :
       (/\ WriteFinish(s, TRUE)
        /\ \A r \in Slots : req'[r].pc \notin {"saving", "writing"}) =>
         disk' = FileJson(req[s].write)]_vars

\* C18: when the caller of a forwarded request disconnects, the upstream
\* request is closed in that step.
C18_DisconnectEndsUpstream ==
  [][\A s \in Proxying :
       ClientDisconnect(s) =>
         /\ req'[s].pc \notin {"proxying", "streaming"}
         /\ req'[s].up = NoUpstream]_vars

\* C19: when the last of several overlapping upserts has been answered
\* after a successful write and no request is in flight, the file is the
\* serialisation of the cache.
C19_FileEqualsCacheWhenQuiet ==
  (/\ sent.resp.kind = "record"
   /\ sent.written
   /\ ~sent.alone
   /\ \A s \in Slots : req[s].pc = "idle") =>
    disk = FileJson(JSONStringify(pipeCache))

\* C20: a create without an id appends exactly one record, whose id is the
\* id of no record of the cache and of no create in flight, and the later
\* steps of a create leave the cache alone.
C20_OverlappingCreatesDistinct ==
  [][/\ \A s \in Reading :
          BodyEnd(s, BodyEmpty) =>
            /\ Len(pipeCache') = Len(pipeCache) + 1
            /\ SubSeq(pipeCache', 1, Len(pipeCache)) = pipeCache
            /\ pipeCache'[Len(pipeCache')] = req'[s].rec
            /\ req'[s].rec.id.k = "num"
            /\ Positions(pipeCache, req'[s].rec.id) = {}
            /\ \A r \in Saving : req[r].rec.id # req'[s].rec.id
     /\ \A s \in Saving :
          (WriteOpen(s) \/ WriteFinish(s, TRUE)) => pipeCache' = pipeCache]_vars

\* C20 witness: two creates are in flight with different ids and the cache
\* holds one record for each.
C20_Witness ==
  /\ \A s \in Slots : req[s].pc \in {"saving", "writing"} /\ req[s].op = "create"
  /\ req["r1"].rec.id # req["r2"].rec.id
  /\ Len(pipeCache) = 2
  /\ \A s \in Slots : Cardinality(Positions(pipeCache, req[s].rec.id)) = 1

\* C21: an update merges its body into the record the cache holds when the
\* body has arrived, the changes of an update still at its write included:
\* every field of the body takes the body's value, every other field and
\* every other record stays; the steps of a write leave the cache alone.
C21_OverlappingUpdatesBothApplied ==
  [][/\ \A s \in Reading, t \in WriteBodies :
          (/\ Truthy(t.id)
           /\ Positions(pipeCache, t.id) # {}
           /\ BodyEnd(s, t)) =>
            LET i == findIndex(pipeCache, t.id)
                body == parseRequestBody(t).val
            IN
            /\ Len(pipeCache') = Len(pipeCache)
            /\ \A j \in 1..Len(pipeCache) : j # i => pipeCache'[j] = pipeCache[j]
            /\ pipeCache'[i].id = pipeCache[i].id
            /\ \A x \in Fields :
                 pipeCache'[i].f[x] =
                   IF body.f[x] # Absent THEN body.f[x] ELSE pipeCache[i].f[x]
            /\ req'[s].pc = "saving"
     /\ \A s \in Saving :
          (WriteOpen(s) \/ WriteFinish(s, TRUE)) => pipeCache' = pipeCache]_vars

\* C21 witness: two updates of the same record with different bodies are at
\* their writes and the record carries the material of one and the length
\* of the other.
C21_Witness ==
  /\ \A s \in Slots : req[s].pc \in {"saving", "writing"} /\ req[s].op = "update"
  /\ req["r1"].rec.id = req["r2"].rec.id
  /\ req["r1"].rec # req["r2"].rec
  /\ \E i \in Positions(pipeCache, req["r1"].rec.id) :
       /\ pipeCache[i].f["material"] = "steel"
       /\ pipeCache[i].f["length"] = "5"

\* C22: a response is written only on a connection whose response has no
\* head yet, and res.writeHead is called at most once for a request.
C22_HeadWrittenOnce ==
  [][\A s \in Slots :
       /\ sent'.slot = s => req[s].heads = 0
       /\ req'[s].heads <= 1]_vars

\* C23: no step makes the cache shorter and every id of the cache stays in
\* the cache.
C23_RecordsNeverRemoved ==
  [][/\ Len(pipeCache') >= Len(pipeCache)
     /\ \A i \in 1..Len(pipeCache) : Positions(pipeCache', pipeCache[i].id) # {}]_vars

\* C23 witness: after an update the cache holds two records with different
\* ids.
C23_Witness ==
  /\ sent.resp.status = 200
  /\ sent.resp.kind = "record"
  /\ Len(pipeCache) >= 2
  /\ pipeCache[1].id # pipeCache[2].id

\* C24: the POST of an edit dialog carries an id that the cache holds, takes
\* the update branch, leaves the cache with as many records as before and
\* with one record of that id, and is answered 200.
C24_UiEditUpdatesRecord ==
  [][/\ (ui.save.from = "edit" /\ ServeSaveBody(PostSlot)) =>
          /\ Positions(pipeCache, ui.save.body.id) # {}
          /\ req'[PostSlot].op = "update"
          /\ Len(pipeCache') = Len(pipeCache)
          /\ Cardinality(Positions(pipeCache', ui.save.body.id)) = 1
     /\ (ui.save.from = "edit" /\ ServeSaveWritten(PostSlot, TRUE)) =>
          sent'.resp.status = 200]_vars

\* C25: when no fetch of the page is in flight the page shows the response
\* to the fetch it started last, and loading is on exactly while a fetch is
\* in flight.
C25_UiShowsLatestFetch ==
  /\ (ui.latest # "none" /\ \A f \in Fetches : ui.fetch[f].st = "none") =>
       ui.pipes = JSONParse(ui.latestList)
  /\ ui.loading <=> (\E f \in Fetches : ui.fetch[f].st # "none")

\* C26: Save in the dirty-tracking editor with no field entered closes the
\* dialog with the no-changes toast and starts no POST, and the step
\* touches nothing of the server; that editor starts a POST only with a
\* field entered, and the server gets a POST only when the page has sent
\* one.
C26_NoDirtyFieldNoPost ==
  [][/\ (ui.editor = "gumnut" /\ ui.typed = NoFields /\ UiSaveClick) =>
          /\ ui'.save = NoSave
          /\ ~ui'.isEditorOpen
          /\ ui'.toast = "no-changes"
          /\ pipeCache' = pipeCache
          /\ disk' = disk
          /\ req' = req
     /\ (ui.editor = "gumnut" /\ ui.save.st = "none" /\ ui'.save.st = "sent") =>
          ui.typed # NoFields
     /\ (req[PostSlot].pc = "idle" /\ req'[PostSlot].pc = "body") =>
          ui.save.st = "sent"]_vars

\* C26 witness: the dirty-tracking editor was closed by a Save with no
\* field entered while the server holds a record and handles no request.
C26_Witness ==
  /\ ui.editor = "gumnut"
  /\ ui.toast = "no-changes"
  /\ ~ui.isEditorOpen
  /\ ui.save = NoSave
  /\ Len(pipeCache) > 0
  /\ \A s \in Slots : req[s].pc = "idle"

\* The bodies that are JSON and lack a non-empty name or a non-empty color.
LacksNameOrColor ==
  {t \in WidgetBodies :
     /\ t.kind # "invalid"
     /\ t.name \in {Absent, ""} \/ t.color \in {Absent, ""}}

\* The steps of the variant that leave its cache and its file alone and
\* start no write.
WidgetStoreUntouched ==
  /\ widgets'.widgetCache = widgets.widgetCache
  /\ widgets'.disk = widgets.disk
  /\ widgets'.pc = "idle"

\* The id of a created widget is the id the store computes, whatever id the
\* body carries.
CreatedWidgetIdIsAssigned ==
  \A t \in WidgetBodies :
    (WidgetBodyEnd(t) /\ widgets'.op = "create") =>
      /\ widgets'.rec.id = IdNum(newId(widgets.widgetCache))
      /\ widgets'.widgetCache = Append(widgets.widgetCache, widgets'.rec)
      /\ Positions(widgets.widgetCache, widgets'.rec.id) = {}

\* C27 as stated: every JSON body that lacks a non-empty name or color is
\* answered 400 with the cache and the file unchanged, and a created
\* widget's id is the store-assigned one.
C27_WidgetLackingFieldsGets400 ==
  [][/\ \A t \in LacksNameOrColor :
          (widgets.pc = "body" /\ WidgetBodyEnd(t)) =>
            (widgets'.sent.status = 400 /\ WidgetStoreUntouched)
     /\ widgets.pc = "body" => CreatedWidgetIdIsAssigned]_vars

\* C27 as amended: a JSON body other than null that lacks a non-empty name
\* or color is answered 400, the body null is answered 500, in both cases
\* with the cache and the file unchanged; a created widget's id is the
\* store-assigned one.
C27_WidgetLackingFieldsRejected ==
  [][/\ \A t \in LacksNameOrColor :
          (widgets.pc = "body" /\ WidgetBodyEnd(t)) =>
            /\ widgets'.sent.status = IF t.kind = "null" THEN 500 ELSE 400
            /\ WidgetStoreUntouched
     /\ widgets.pc = "body" => CreatedWidgetIdIsAssigned]_vars

\* C27 witness: a 400 was sent while the variant's cache and file hold a
\* widget.
C27_Witness ==
  /\ widgets.sent.status = 400
  /\ Len(widgets.widgetCache) > 0
  /\ widgets.disk.kind = "json"
  /\ Len(widgets.disk.doc) > 0

====
